---- MODULE Spec2Model ----
(***************************************************************************)
(* Model of the Calculator class of calculator.py (the state engine behind *)
(* the CustomTkinter front end).                                           *)
(*                                                                         *)
(* Python strings are sequences of one-character strings.  A Python float  *)
(* is a sign and a magnitude counted in units of 10^-FracDigits; the sign  *)
(* is kept apart so that -0.0 is a value of its own.  Arithmetic is        *)
(* explored where IEEE double arithmetic returns the decimal the model     *)
(* computes: the operands are dyadic (exact doubles) and the exact result  *)
(* is a multiple of the unit no larger than MaxMag.  Every other           *)
(* evaluation is outside the model ("OutOfModel") and is not explored.     *)
(***************************************************************************)
EXTENDS Integers, Sequences, FiniteSets, TLC

\* ---------------------------------------------------------------- bounds
\* calls made on the engine in one explored run
MaxSteps == 6
\* decimal places a modelled float carries
FracDigits == 2
\* largest integer part of a modelled float
MaxInt == 60
\* largest integer part of the modelled memory register
MaxMem == 5

\* ------------------------------------------------------- program constants
\* len(self.history) > 10
HistoryLimit == 10
\* float(self.current_input) / 100
PercentDivisor == 100

None == "None"

RECURSIVE Pow10(_)
Pow10(k) == IF k = 0 THEN 1 ELSE 10 * Pow10(k - 1)

RECURSIVE Pow5(_)
Pow5(k) == IF k = 0 THEN 1 ELSE 5 * Pow5(k - 1)

Scale == Pow10(FracDigits)
MaxMag == MaxInt * Scale

\* ------------------------------------------------------------------ text
DigitChars == <<"0", "1", "2", "3", "4", "5", "6", "7", "8", "9">>

IsDigit(c) == \E d \in 1..10 : DigitChars[d] = c

CharVal(c) == (CHOOSE d \in 1..10 : DigitChars[d] = c) - 1

Contains(s, c) == \E i \in 1..Len(s) : s[i] = c

CountOf(s, c) == Cardinality({i \in 1..Len(s) : s[i] = c})

\* str(n) of a natural number
RECURSIVE NatStr(_)
NatStr(n) == IF n < 10 THEN <<DigitChars[n + 1]>>
             ELSE NatStr(n \div 10) \o <<DigitChars[(n % 10) + 1]>>

\* value of a run of digits
RECURSIVE DigitsVal(_)
DigitsVal(s) == IF s = <<>> THEN 0
                ELSE 10 * DigitsVal(SubSeq(s, 1, Len(s) - 1)) + CharVal(s[Len(s)])

AllDigits(s) == \A i \in 1..Len(s) : IsDigit(s[i])

\* the k fractional digits of a magnitude, zero padded on the left
RECURSIVE FracStr(_, _)
FracStr(n, k) == IF k = 0 THEN <<>>
                 ELSE FracStr(n \div 10, k - 1) \o <<DigitChars[(n % 10) + 1]>>

\* repr drops the trailing zeros of the fraction but keeps one digit
RECURSIVE StripZeros(_)
StripZeros(s) == IF Len(s) > 1 /\ s[Len(s)] = "0"
                 THEN StripZeros(SubSeq(s, 1, Len(s) - 1))
                 ELSE s

ErrorDiv0 == <<"E", "r", "r", "o", "r", ":", " ", "D", "i", "v", "/", "0">>
ErrorText == <<"E", "r", "r", "o", "r">>

\* ---------------------------------------------------------------- floats
Float(neg, mag) == [neg |-> neg, mag |-> mag]

Zero == Float(FALSE, 0)

Signed(x) == IF x.neg THEN 0 - x.mag ELSE x.mag

IsZero(x) == x.mag = 0

\* float.is_integer()
IsInteger(x) == x.mag % Scale = 0

\* the value is a double exactly
Dyadic(x) == x.mag % Pow5(FracDigits) = 0

\* str(float)
FloatStr(x) ==
  (IF x.neg THEN <<"-">> ELSE <<>>)
    \o NatStr(x.mag \div Scale) \o <<".">>
    \o StripZeros(FracStr(x.mag % Scale, FracDigits))

\* str(int(float))
IntStr(x) ==
  (IF x.neg /\ x.mag # 0 THEN <<"-">> ELSE <<>>) \o NatStr(x.mag \div Scale)

\* float(s): [ok] the text is a float literal, [inModel] its value is a
\* modelled float, [val] the value
ParseFloat(s) ==
  LET neg  == s # <<>> /\ s[1] = "-"
      body == IF neg THEN Tail(s) ELSE s
      dots == {i \in 1..Len(body) : body[i] = "."}
      dot  == IF dots = {} THEN Len(body) + 1 ELSE CHOOSE i \in dots : TRUE
      ip   == SubSeq(body, 1, dot - 1)
      fp   == StripZeros(SubSeq(body, dot + 1, Len(body)))
      fpz  == IF fp = <<"0">> THEN <<>> ELSE fp
      ok   == /\ Cardinality(dots) <= 1
              /\ \A i \in 1..Len(body) : IsDigit(body[i]) \/ body[i] = "."
              /\ \E i \in 1..Len(body) : IsDigit(body[i])
      fits == ok /\ Len(fpz) <= FracDigits /\ Len(ip) <= Len(NatStr(MaxInt))
      mag  == DigitsVal(ip) * Scale + DigitsVal(fpz) * Pow10(FracDigits - Len(fpz))
  IN  [ok      |-> ok,
       inModel |-> ok => (fits /\ mag <= MaxMag),
       val     |-> IF fits THEN Float(neg, mag) ELSE Zero]

\* ------------------------------------------------------- float arithmetic
\* Outcomes of an expression: a float, a text (str or complex), a raised
\* exception, or OutOfModel.
Value(x) == [kind |-> "float", val |-> x, text |-> <<>>]
TextValue(type, t) == [kind |-> type, val |-> Zero, text |-> t]
Raise(exc) == [kind |-> exc, val |-> Zero, text |-> <<>>]
OutOfModel == [kind |-> "OutOfModel", val |-> Zero, text |-> <<>>]

Bounded(neg, mag) == IF mag <= MaxMag THEN Value(Float(neg, mag)) ELSE OutOfModel

\* the product a * b, in units, is within the model
ProductFits(a, b) == a = 0 \/ b <= (MaxMag * Scale) \div a

\* num1 + num2
FAdd(x, y) ==
  LET v == Signed(x) + Signed(y)
  IN  IF ~(Dyadic(x) /\ Dyadic(y)) /\ ~IsZero(x) /\ ~IsZero(y) THEN OutOfModel
      ELSE IF v = 0 THEN Value(Float(x.neg /\ y.neg, 0))
      ELSE IF v < 0 THEN Bounded(TRUE, 0 - v) ELSE Bounded(FALSE, v)

\* num1 - num2
FSub(x, y) == FAdd(x, Float(~y.neg, y.mag))

\* num1 * num2
FMul(x, y) ==
  IF ~(Dyadic(x) /\ Dyadic(y)) \/ ~ProductFits(x.mag, y.mag) THEN OutOfModel
  ELSE IF (x.mag * y.mag) % Scale # 0 THEN OutOfModel
  ELSE Bounded(x.neg # y.neg, (x.mag * y.mag) \div Scale)

\* num1 / num2, num2 # 0
FDiv(x, y) ==
  IF ~(Dyadic(x) /\ Dyadic(y)) \/ (x.mag * Scale) % y.mag # 0 THEN OutOfModel
  ELSE Bounded(x.neg # y.neg, (x.mag * Scale) \div y.mag)

\* magnitude of x ** e for a natural e by repeated multiplication from acc,
\* or MaxMag + 1 once a product leaves the model
RECURSIVE PowAcc(_, _, _)
PowAcc(m, e, acc) ==
  IF e = 0 \/ m = Scale \/ acc = 0 \/ acc > MaxMag THEN acc
  ELSE IF ~ProductFits(acc, m) THEN MaxMag + 1
  ELSE IF (acc * m) % Scale # 0 THEN MaxMag + 1
  ELSE PowAcc(m, e - 1, (acc * m) \div Scale)

PowMag(m, e) == PowAcc(m, e, Scale)

\* str() of the complex number Python returns for a negative base and a
\* fractional exponent
ComplexPowText(x, y) ==
  IF x.mag = 5 * Scale /\ Signed(y) * 2 = Scale
    THEN <<"(", "1", ".", "3", "6", "9", "1", "9", "6", "7", "4", "5", "6", "6", "0", "5", "0", "6", "7", "e", "-", "1", "6", "+", "2", ".", "2", "3", "6", "0", "6", "7", "9", "7", "7", "4", "9", "9", "7", "9", "j", ")">>
  ELSE IF x.mag * 2 = Scale /\ Signed(y) * 2 = Scale
    THEN <<"(", "4", ".", "3", "2", "9", "7", "8", "0", "2", "8", "1", "1", "7", "7", "4", "6", "7", "e", "-", "1", "7", "+", "0", ".", "7", "0", "7", "1", "0", "6", "7", "8", "1", "1", "8", "6", "5", "4", "7", "6", "j", ")">>
  ELSE <<>>

\* num1 ** num2
FPow(x, y) ==
  LET e   == y.mag \div Scale
      odd == e % 2 = 1
      p   == PowMag(x.mag, e)
  IN  IF IsZero(y) THEN Value(Float(FALSE, Scale))
      ELSE IF IsZero(x) /\ y.neg THEN Raise("ZeroDivisionError")
      ELSE IF ~IsInteger(y)
        THEN IF IsZero(x) THEN Value(Zero)
             ELSE IF x.neg /\ ComplexPowText(x, y) # <<>>
               THEN TextValue("complex", ComplexPowText(x, y))
             ELSE OutOfModel
      ELSE IF ~Dyadic(x) \/ p > MaxMag THEN OutOfModel
      ELSE IF ~y.neg THEN Value(Float(x.neg /\ odd, p))
      ELSE IF (Scale * Scale) % p # 0 THEN OutOfModel
      ELSE Bounded(x.neg /\ odd, (Scale * Scale) \div p)

\* the largest r in lo..hi with r * r <= n, by bisection (lo * lo <= n)
RECURSIVE RootIn(_, _, _)
RootIn(n, lo, hi) ==
  IF lo >= hi THEN lo
  ELSE LET mid == (lo + hi + 1) \div 2
       IN  IF mid <= n \div mid THEN RootIn(n, mid, hi) ELSE RootIn(n, lo, mid - 1)

\* math.sqrt(num1)
FSqrt(x) ==
  LET n == x.mag * Scale
      r == RootIn(n, 0, MaxMag)
  IN  IF x.neg /\ ~IsZero(x) THEN Raise("ValueError")
      ELSE IF IsZero(x) THEN Value(x)
      ELSE IF ~Dyadic(x) \/ n % r # 0 \/ n \div r # r THEN OutOfModel
      ELSE Value(Float(FALSE, r))

\* ------------------------------------------------------------ Calculator
VARIABLES current_input, previous_input, operation, memory, history,
          last_operation, ret, lastCall, steps, appended, typed

vars == <<current_input, previous_input, operation, memory, history,
          last_operation, ret, lastCall, steps, appended, typed>>

\* what a call handed back: kind is the Python type of the value ("None"
\* for the methods that return nothing), text is its str()
Returned(kind, text) == [kind |-> kind, text |-> text]
NoReturn == Returned("None", <<>>)

\* the fields calculate() and clear_all() work on
Fields == [current_input  |-> current_input,
           previous_input |-> previous_input,
           operation      |-> operation,
           history        |-> history,
           last_operation |-> last_operation]

\* Calculator.__init__
Init ==
  /\ current_input = <<"0">>
  /\ previous_input = <<>>
  /\ operation = None
  /\ memory = Zero
  /\ history = <<>>
  /\ last_operation = <<>>
  /\ ret = NoReturn
  /\ lastCall = "__init__"
  /\ steps = 0
  /\ appended = 0
  /\ typed = [seed |-> <<"0">>, keys |-> <<>>]

\* clear_all that forgets self.history.clear()
ClearAll_keeps_history(f) == [current_input  |-> <<"0">>,
                              previous_input |-> <<>>,
                              operation      |-> None,
                              history        |-> f.history,
                              last_operation |-> <<>>]

\* Calculator.clear_all, as a function of the fields
ClearAll(f) == [current_input  |-> <<"0">>,
                previous_input |-> <<>>,
                operation      |-> None,
                history        |-> <<>>,
                last_operation |-> <<>>]

\* the chain with the square root taken of the right operand
Dispatch_root_of_right(op, num1, num2) ==
  CASE op = "+" -> FAdd(num1, num2)
    [] op = "-" -> FSub(num1, num2)
    [] op = "*" -> FMul(num1, num2)
    [] op = "/" -> IF ~IsZero(num2) THEN FDiv(num1, num2)
                   ELSE TextValue("str", ErrorDiv0)
    [] op = "^" -> FPow(num1, num2)
    [] op = "sqrt" -> FSqrt(num2)
    [] OTHER -> [kind |-> "return", val |-> Zero, text |-> ErrorText]

\* the if/elif chain of calculate()
Dispatch(op, num1, num2) ==
  CASE op = "+" -> FAdd(num1, num2)
    [] op = "-" -> FSub(num1, num2)
    [] op = "*" -> FMul(num1, num2)
    [] op = "/" -> IF ~IsZero(num2) THEN FDiv(num1, num2)
                   ELSE TextValue("str", ErrorDiv0)
    [] op = "^" -> FPow(num1, num2)
    [] op = "sqrt" -> FSqrt(num1)
    [] OTHER -> [kind |-> "return", val |-> Zero, text |-> ErrorText]

\* the result returned without the int() conversion
FormatResult_keeps_float(out) ==
  IF out.kind = "float" THEN Returned("float", FloatStr(out.val))
  ELSE Returned(out.kind, out.text)

\* result = int(result) if result.is_integer() else result, and its str()
FormatResult(out) ==
  IF out.kind = "float"
    THEN IF IsInteger(out.val) THEN Returned("int", IntStr(out.val))
         ELSE Returned("float", FloatStr(out.val))
    ELSE Returned(out.kind, out.text)

\* the append without the eviction
AppendHistory_no_pop(h, entry) == Append(h, entry)

\* pop() in place of pop(0): the newest entry is dropped
AppendHistory_drops_newest(h, entry) ==
  LET a == Append(h, entry)
  IN  IF Len(a) > HistoryLimit THEN SubSeq(a, 1, Len(a) - 1) ELSE a

\* self.history.append(...); if len(self.history) > 10: self.history.pop(0)
AppendHistory(h, entry) ==
  LET a == Append(h, entry)
  IN  IF Len(a) > HistoryLimit THEN Tail(a) ELSE a

\* f"{previous_input} {operation} {current_input} = {result}"
HistoryEntry(f, result) ==
  f.previous_input \o <<" ", f.operation, " ">> \o f.current_input
    \o <<" ", "=", " ">> \o result.text

\* the success path that leaves last_operation in place
Succeed_keeps_label(f, res) ==
  [fields |-> [f EXCEPT
                 !.history = AppendHistory(f.history, HistoryEntry(f, res)),
                 !.current_input = res.text,
                 !.operation = None],
   inModel |-> TRUE, logged |-> TRUE,
   ret |-> res]

\* the success path of calculate(): history entry, result shown, operation
\* cleared
Succeed(f, res) ==
  [fields |-> [f EXCEPT
                 !.history = AppendHistory(f.history, HistoryEntry(f, res)),
                 !.current_input = res.text,
                 !.operation = None,
                 !.last_operation = <<>>],
   inModel |-> TRUE, logged |-> TRUE,
   ret |-> res]

\* calculate() whose two handlers return the same text
Finish_one_indicator(f, out) ==
  CASE out.kind = "OutOfModel" ->
         [fields |-> f, inModel |-> FALSE, logged |-> FALSE, ret |-> NoReturn]
    [] out.kind = "return" ->
         [fields |-> f, inModel |-> TRUE, logged |-> FALSE,
          ret |-> Returned("str", ErrorText)]
    [] out.kind = "ZeroDivisionError" ->
         [fields |-> ClearAll(f), inModel |-> TRUE, logged |-> FALSE,
          ret |-> Returned("str", ErrorText)]
    [] out.kind = "ValueError" ->
         [fields |-> ClearAll(f), inModel |-> TRUE, logged |-> FALSE,
          ret |-> Returned("str", ErrorText)]
    [] OTHER -> Succeed(f, FormatResult(out))

\* calculate() past its first guard, given the outcome of the try block
Finish(f, out) ==
  CASE out.kind = "OutOfModel" ->
         [fields |-> f, inModel |-> FALSE, logged |-> FALSE, ret |-> NoReturn]
    [] out.kind = "return" ->
         [fields |-> f, inModel |-> TRUE, logged |-> FALSE,
          ret |-> Returned("str", ErrorText)]
    [] out.kind = "ZeroDivisionError" ->
         [fields |-> ClearAll(f), inModel |-> TRUE, logged |-> FALSE,
          ret |-> Returned("str", ErrorDiv0)]
    [] out.kind = "ValueError" ->
         [fields |-> ClearAll(f), inModel |-> TRUE, logged |-> FALSE,
          ret |-> Returned("str", ErrorText)]
    [] OTHER -> Succeed(f, FormatResult(out))

\* the try block of calculate(): num1 = float(previous_input), num2 =
\* float(current_input) if current_input else num1, then the dispatch
Try(op, p1, p2) ==
  IF ~p1.inModel \/ (p1.ok /\ ~p2.inModel) THEN OutOfModel
  ELSE IF ~p1.ok \/ ~p2.ok THEN Raise("ValueError")
  ELSE Dispatch(op, p1.val, p2.val)

\* calculate() that clears the entry when there is nothing to evaluate
Calculate_clears_when_idle(f) ==
  IF f.operation = None \/ f.previous_input = <<>>
    THEN [fields |-> [f EXCEPT !.current_input = <<"0">>],
          inModel |-> TRUE, logged |-> FALSE,
          ret |-> Returned("str", IF f.current_input # <<>>
                                    THEN f.current_input ELSE <<"0">>)]
    ELSE Finish(f, Try(f.operation,
                       ParseFloat(f.previous_input),
                       ParseFloat(IF f.current_input # <<>> THEN f.current_input
                                  ELSE f.previous_input)))

\* calculate() that takes 0 for a right operand that was never typed
Calculate_zero_for_missing(f) ==
  IF f.operation = None \/ f.previous_input = <<>>
    THEN [fields |-> f, inModel |-> TRUE, logged |-> FALSE,
          ret |-> Returned("str", IF f.current_input # <<>>
                                    THEN f.current_input ELSE <<"0">>)]
    ELSE Finish(f, Try(f.operation,
                       ParseFloat(f.previous_input),
                       ParseFloat(IF f.current_input # <<>> THEN f.current_input
                                  ELSE <<"0">>)))

\* Calculator.calculate as a function of the fields: the fields afterwards,
\* the value returned, whether a history entry was appended, and whether the
\* evaluation is one the model covers
Calculate(f) ==
  IF f.operation = None \/ f.previous_input = <<>>
    THEN [fields |-> f, inModel |-> TRUE, logged |-> FALSE,
          ret |-> Returned("str", IF f.current_input # <<>>
                                    THEN f.current_input ELSE <<"0">>)]
    ELSE Finish(f, Try(f.operation,
                       ParseFloat(f.previous_input),
                       ParseFloat(IF f.current_input # <<>> THEN f.current_input
                                  ELSE f.previous_input)))

\* appended counts the entries appended to history since it was last empty,
\* up to HistoryLimit + 1 ("more than the limit"); it is not a field of the
\* Calculator
Logged(h, logged) ==
  IF h = <<>> THEN 0
  ELSE IF logged /\ appended <= HistoryLimit THEN appended + 1
  ELSE appended

\* the fields of f become the state
Store(f) ==
  /\ current_input' = f.current_input
  /\ previous_input' = f.previous_input
  /\ operation' = f.operation
  /\ history' = f.history
  /\ last_operation' = f.last_operation

\* add_to_input that lets the point, too, replace a bare "0"
add_to_input_point_replaces_zero(value) ==
  /\ current_input' =
       IF value = "." /\ Contains(current_input, ".") THEN current_input
       ELSE IF current_input = <<"0">> THEN <<value>>
       ELSE Append(current_input, value)
  /\ ret' = NoReturn
  /\ lastCall' = "add_to_input"
  /\ UNCHANGED <<previous_input, operation, memory, history, last_operation, appended>>

\* Calculator.add_to_input
add_to_input(value) ==
  /\ current_input' =
       IF value = "." /\ Contains(current_input, ".") THEN current_input
       ELSE IF current_input = <<"0">> /\ value # "." THEN <<value>>
       ELSE Append(current_input, value)
  /\ ret' = NoReturn
  /\ lastCall' = "add_to_input"
  /\ UNCHANGED <<previous_input, operation, memory, history, last_operation, appended>>

\* the fields when set_operation() is called and no evaluation is chained
Unchained(f) == [fields |-> f, inModel |-> TRUE, logged |-> FALSE, ret |-> NoReturn]

\* the assignments of set_operation() after the chained evaluation c; keep is
\* the operation symbol stored
Select(op, keep, c) ==
  /\ c.inModel
  /\ Store([c.fields EXCEPT
              !.previous_input = c.fields.current_input,
              !.current_input = <<>>,
              !.operation = keep,
              !.last_operation = c.fields.current_input \o <<" ", op>>])
  /\ appended' = Logged(c.fields.history, c.logged)
  /\ ret' = NoReturn
  /\ lastCall' = "set_operation"
  /\ UNCHANGED memory

\* set_operation() called with current_input empty
Ignored ==
  /\ ret' = NoReturn
  /\ lastCall' = "set_operation"
  /\ UNCHANGED <<current_input, previous_input, operation, history,
                 last_operation, memory, appended>>

\* set_operation that assigns self.operation before the chained calculate(),
\* which then evaluates the new symbol and unsets it
AssignedEarly(op, c) == Select(op, c.fields.operation, c)

set_operation_assigns_early(op) ==
  IF current_input = <<>> THEN Ignored
  ELSE IF operation # None /\ previous_input # <<>>
    THEN AssignedEarly(op, Calculate([Fields EXCEPT !.operation = op]))
  ELSE AssignedEarly(op, Unchained([Fields EXCEPT !.operation = op]))

\* set_operation that never evaluates the operation already pending
set_operation_skips_evaluation(op) ==
  IF current_input = <<>> THEN Ignored
  ELSE Select(op, op, Unchained(Fields))

\* set_operation without the test of current_input
set_operation_unguarded(op) ==
  IF operation # None /\ previous_input # <<>>
    THEN Select(op, op, Calculate(Fields))
  ELSE Select(op, op, Unchained(Fields))

\* Calculator.set_operation
set_operation(op) ==
  IF current_input = <<>> THEN Ignored
  ELSE IF operation # None /\ previous_input # <<>>
    THEN Select(op, op, Calculate(Fields))
  ELSE Select(op, op, Unchained(Fields))

\* the state after calculate() with outcome c
Evaluate(c) ==
  /\ c.inModel
  /\ Store(c.fields)
  /\ appended' = Logged(c.fields.history, c.logged)
  /\ ret' = c.ret
  /\ lastCall' = "calculate"
  /\ UNCHANGED memory

\* Calculator.calculate
calculate == Evaluate(Calculate(Fields))

\* clear_entry whose guard reads current_input before it is reset
clear_entry_guard_first ==
  /\ current_input' = <<"0">>
  /\ IF operation # None /\ current_input = <<>>
       THEN operation' = None /\ last_operation' = <<>>
       ELSE UNCHANGED <<operation, last_operation>>
  /\ ret' = NoReturn
  /\ lastCall' = "clear_entry"
  /\ UNCHANGED <<previous_input, memory, history, appended>>

\* Calculator.clear_entry
clear_entry ==
  /\ current_input' = <<"0">>
  /\ IF operation # None /\ <<"0">> = <<>>
       THEN operation' = None /\ last_operation' = <<>>
       ELSE UNCHANGED <<operation, last_operation>>
  /\ ret' = NoReturn
  /\ lastCall' = "clear_entry"
  /\ UNCHANGED <<previous_input, memory, history, appended>>

\* clear_all that also zeroes the memory register
clear_all_resets_memory ==
  /\ Store(ClearAll(Fields))
  /\ memory' = Zero
  /\ ret' = NoReturn
  /\ lastCall' = "clear_all"
  /\ appended' = 0

\* Calculator.clear_all
clear_all ==
  /\ Store(ClearAll(Fields))
  /\ ret' = NoReturn
  /\ lastCall' = "clear_all"
  /\ appended' = 0
  /\ UNCHANGED memory

\* the accumulation that zeroes memory when float(current_input) fails
Accumulate_clears_on_failure(sign, p) ==
  IF ~p.ok THEN Value(Zero)
  ELSE IF ~p.inModel THEN OutOfModel
  ELSE IF sign = 1 THEN FAdd(memory, p.val)
  ELSE FSub(memory, p.val)

\* memory += float(current_input) (sign = 1) or memory -= ... (sign = -1),
\* given float(current_input): the memory afterwards, or OutOfModel
Accumulate(sign, p) ==
  IF ~p.ok THEN Value(memory)
  ELSE IF ~p.inModel THEN OutOfModel
  ELSE IF sign = 1 THEN FAdd(memory, p.val)
  ELSE FSub(memory, p.val)

\* the state after memory_add() or memory_subtract() left r in memory
Remember(name, r) ==
  /\ r.kind = "float"
  /\ r.val.mag <= MaxMem * Scale
  /\ memory' = r.val
  /\ ret' = NoReturn
  /\ lastCall' = name
  /\ UNCHANGED <<current_input, previous_input, operation, history,
                 last_operation, appended>>

\* Calculator.memory_add
memory_add == Remember("memory_add", Accumulate(1, ParseFloat(current_input)))

\* Calculator.memory_subtract
memory_subtract ==
  Remember("memory_subtract", Accumulate(-1, ParseFloat(current_input)))

\* Calculator.memory_recall
memory_recall ==
  /\ current_input' = FloatStr(memory)
  /\ ret' = NoReturn
  /\ lastCall' = "memory_recall"
  /\ UNCHANGED <<previous_input, operation, memory, history, last_operation, appended>>

\* Calculator.memory_clear
memory_clear ==
  /\ memory' = Zero
  /\ ret' = NoReturn
  /\ lastCall' = "memory_clear"
  /\ UNCHANGED <<current_input, previous_input, operation, history, last_operation, appended>>

\* str(float(current_input) / 100), given float(current_input) and the
\* quotient
Percent(p, r) ==
  /\ p.inModel
  /\ p.ok => r.kind = "float"
  /\ current_input' = IF p.ok THEN FloatStr(r.val) ELSE current_input
  /\ ret' = NoReturn
  /\ lastCall' = "percentage"
  /\ UNCHANGED <<previous_input, operation, memory, history, last_operation,
                 appended>>

\* float(current_input) / 100
Hundredth(p) == FDiv(p.val, Float(FALSE, PercentDivisor * Scale))

\* Calculator.percentage
percentage ==
  Percent(ParseFloat(current_input), Hundredth(ParseFloat(current_input)))

\* Calculator.toggle_sign
toggle_sign ==
  /\ current_input' = IF current_input # <<>> /\ current_input[1] = "-"
                        THEN Tail(current_input)
                        ELSE <<"-">> \o current_input
  /\ ret' = NoReturn
  /\ lastCall' = "toggle_sign"
  /\ UNCHANGED <<previous_input, operation, memory, history, last_operation, appended>>

\* ------------------------------------------------------- specifications
\* the symbols of the operation buttons, and one symbol calculate() has no
\* branch for
Supported == {"+", "-", "*", "/", "^", "sqrt"}
Unsupported == "%"

\* the keys typed: two digits and the decimal point
InputChars == {"0", "5", "."}
OpInputs == Supported \cup {Unsupported}

\* one more call of a run of at most MaxSteps calls
Tick == steps < MaxSteps /\ steps' = steps + 1

\* typed records the keys handed to add_to_input since the last call of
\* another method, and the current_input that call left
Keyed(value) == typed' = [typed EXCEPT !.keys = Append(@, value)]
Seeded == typed' = [seed |-> current_input', keys |-> <<>>]

\* Every run of at most MaxSteps calls on a fresh Calculator.
Next ==
  \/ \E value \in InputChars : Tick /\ add_to_input(value) /\ Keyed(value)
  \/ \E op \in OpInputs : Tick /\ set_operation(op) /\ Seeded
  \/ Tick /\ calculate /\ Seeded
  \/ Tick /\ clear_entry /\ Seeded
  \/ Tick /\ clear_all /\ Seeded
  \/ Tick /\ memory_add /\ Seeded
  \/ Tick /\ memory_subtract /\ Seeded
  \/ Tick /\ memory_recall /\ Seeded
  \/ Tick /\ memory_clear /\ Seeded
  \/ Tick /\ percentage /\ Seeded
  \/ Tick /\ toggle_sign /\ Seeded

Spec == Init /\ [][Next]_vars

\* Runs of any length over the key "0" and the operation "+": the values
\* stay 0, so that history can fill up and overflow.
NextHist ==
  \/ add_to_input("0") /\ UNCHANGED <<steps, typed>>
  \/ set_operation("+") /\ UNCHANGED <<steps, typed>>
  \/ calculate /\ UNCHANGED <<steps, typed>>
  \/ clear_all /\ UNCHANGED <<steps, typed>>

SpecHist == Init /\ [][NextHist]_vars

\* ---------------------------------------------------------------- claims
\* the state Calculator.__init__ leaves, memory apart
IsReset(cur, prev, op, last, hist) ==
  cur = <<"0">> /\ prev = <<>> /\ op = None /\ last = <<>> /\ hist = <<>>

\* a text float() accepts: an optional sign, digits with at most one point
NumberText(s) ==
  LET body == IF s # <<>> /\ Head(s) = "-" THEN Tail(s) ELSE s
  IN  /\ \A i \in 1..Len(body) : IsDigit(body[i]) \/ body[i] = "."
      /\ \E i \in 1..Len(body) : IsDigit(body[i])
      /\ CountOf(body, ".") <= 1

\* a number as the keys 0-9 and "." enter it
TypedNumber(s) == NumberText(s) /\ Head(s) # "-"

\* the value of a number text, in units
Units(s) == Signed(ParseFloat(s).val)

\* the right operand calculate() uses
RightOperand == IF current_input # <<>> THEN current_input ELSE previous_input

\* calculate() was called with an operation pending and a left operand
Evaluates == lastCall' = "calculate" /\ operation # None /\ previous_input # <<>>

\* C1: evaluate() with "/" pending and a zero right operand yields the
\* divide-by-zero indicator and leaves the state reset to its initial values,
\* memory unchanged.
C1_DivideByZeroResets ==
  [][(/\ Evaluates
      /\ operation = "/"
      /\ NumberText(previous_input)
      /\ NumberText(RightOperand)
      /\ Units(RightOperand) = 0)
     => (/\ ret' = Returned("str", ErrorDiv0)
         /\ IsReset(current_input', previous_input', operation',
                    last_operation', history')
         /\ memory' = memory)]_vars

\* C2: history never holds more than 10 entries.
C2_HistoryAtMostTen == Len(history) <= HistoryLimit

\* more entries were appended than history keeps, the last one by a chained
\* set_operation
C2_Witness ==
  appended > HistoryLimit /\ Len(history) = HistoryLimit /\ lastCall = "set_operation"

\* the entry an evaluation of the current fields writes, given the text of
\* its result
EntryFor(result) ==
  previous_input \o <<" ", operation, " ">> \o current_input
    \o <<" ", "=", " ">> \o result

\* C3: an evaluation that succeeds while history holds 10 entries leaves
\* entries 2..10 in their order followed by the new entry, whether it was
\* made by calculate() or by a chained set_operation().
C3_HistoryFifo ==
  [][(/\ Len(history) = HistoryLimit
      /\ \/ Evaluates /\ ret'.kind \in {"int", "float"}
         \/ lastCall' = "set_operation" /\ history' # history)
     => (/\ Len(history') = HistoryLimit
         /\ SubSeq(history', 1, HistoryLimit - 1) = Tail(history)
         /\ history'[HistoryLimit] =
              EntryFor(IF lastCall' = "calculate" THEN current_input'
                       ELSE previous_input'))]_vars

\* an eleventh entry or later was appended by calculate()
C3_Witness ==
  /\ appended > HistoryLimit
  /\ Len(history) = HistoryLimit
  /\ lastCall = "calculate"
  /\ ret.kind = "int"

C5_NeverEmpty == current_input # <<>>

\* C5 as amended: current_input is empty only while an operation is pending.
C5_EmptyOnlyWhilePending == current_input = <<>> => operation # None

\* set_operation has just emptied current_input
C5_Witness ==
  current_input = <<>> /\ operation # None /\ lastCall = "set_operation"

\* C6: current_input holds at most one decimal point.
C6_OneDecimalPoint == CountOf(current_input, ".") <= 1

\* C7: operation is unset after every calculate() that started with an
\* operation pending and after every clear_all().
C7_OperationUnsetAfterEvaluate ==
  [][(Evaluates \/ lastCall' = "clear_all") => operation' = None]_vars

\* the reference arithmetic, on values in units
RECURSIVE RefPow(_, _)
RefPow(a, e) == IF e = 0 THEN Scale ELSE (RefPow(a, e - 1) * a) \div Scale

Reference(op, a, b) ==
  CASE op = "+" -> a + b
    [] op = "-" -> a - b
    [] op = "*" -> (a * b) \div Scale
    [] op = "^" -> IF b % Scale = 0 THEN RefPow(a, b \div Scale) ELSE 0

\* C8: for typed operands a and b and op in {+, -, *, ^}, calculate()
\* returns a op b, as an int when the result has no fractional part; the
\* result's text becomes current_input, operation and last_operation are
\* cleared and the one entry "a op b = result" is appended to history.
C8_BinaryRoundTrip ==
  [][(/\ Evaluates
      /\ operation \in {"+", "-", "*", "^"}
      /\ TypedNumber(previous_input)
      /\ TypedNumber(current_input)
      /\ operation = "^" /\ Units(current_input) % Scale # 0
           => Units(previous_input) = 0)
     => LET r == Reference(operation, Units(previous_input), Units(current_input))
        IN  /\ ret'.kind = IF r % Scale = 0 THEN "int" ELSE "float"
            /\ NumberText(ret'.text)
            /\ Units(ret'.text) = r
            /\ ret'.kind = "int" <=> ~Contains(ret'.text, ".")
            /\ current_input' = ret'.text
            /\ operation' = None
            /\ last_operation' = <<>>
            /\ history' =
                 (IF Len(history) < HistoryLimit THEN history ELSE Tail(history))
                   \o <<EntryFor(ret'.text)>>]_vars

\* 5 + 5 was evaluated: result 10, one history entry
C8_Witness ==
  /\ lastCall = "calculate"
  /\ ret = Returned("int", <<"1", "0">>)
  /\ current_input = <<"1", "0">>
  /\ operation = None
  /\ last_operation = <<>>
  /\ history = << <<"5", " ", "+", " ", "5", " ", "=", " ", "1", "0">> >>

\* C9: clear_entry() sets current_input to "0" and changes nothing else.
C9_ClearEntryFrame ==
  [][lastCall' = "clear_entry"
     => (/\ current_input' = <<"0">>
         /\ UNCHANGED <<previous_input, operation, last_operation, history,
                        memory>>)]_vars

\* clear_entry() was called with an operation pending, which still is
C9_Witness ==
  /\ lastCall = "clear_entry"
  /\ operation # None
  /\ previous_input # <<>>
  /\ last_operation # <<>>
  /\ current_input = <<"0">>

\* C10: calculate() with an operation pending and an operand that is no
\* number text returns "Error" and resets the state, memory unchanged.
C10_UnparseableOperandResets ==
  [][(/\ Evaluates
      /\ ~NumberText(previous_input)
           \/ (current_input # <<>> /\ ~NumberText(current_input)))
     => (/\ ret' = Returned("str", ErrorText)
         /\ IsReset(current_input', previous_input', operation',
                    last_operation', history')
         /\ memory' = memory)]_vars

\* "Error" came back from the third call of a run: the operand was "." or
\* "-" (no other failing evaluation is that short)
C10_Witness ==
  /\ steps = 3
  /\ lastCall = "calculate"
  /\ ret = Returned("str", ErrorText)
  /\ IsReset(current_input, previous_input, operation, last_operation, history)

\* C11: calculate() with a pending symbol outside + - * / ^ sqrt returns
\* "Error" and leaves the state reset to its initial values, memory
\* unchanged.
C11_UnsupportedSymbolResets ==
  [][(Evaluates /\ operation \notin Supported)
     => (/\ ret' = Returned("str", ErrorText)
         /\ IsReset(current_input', previous_input', operation',
                    last_operation', history')
         /\ memory' = memory)]_vars

\* C12: memory_add(), memory_subtract() and percentage() called while
\* current_input is no number text return nothing and leave every field as
\* it was.
C12_UnparseableInputIgnored ==
  [][(/\ lastCall' \in {"memory_add", "memory_subtract", "percentage"}
      /\ ~NumberText(current_input))
     => (/\ ret' = NoReturn
         /\ UNCHANGED <<current_input, previous_input, operation, memory,
                        history, last_operation>>)]_vars

\* memory_subtract() was called on the empty current_input set_operation()
\* leaves, with a non-zero memory
C12_Witness ==
  /\ lastCall = "memory_subtract"
  /\ current_input = <<>>
  /\ operation # None
  /\ memory # Zero

\* the keys of s after its leading "0" keys
RECURSIVE AfterZeros(_)
AfterZeros(s) == IF s # <<>> /\ Head(s) = "0" THEN AfterZeros(Tail(s)) ELSE s

\* the concatenation of the keys typed onto the bare "0", which a digit
\* replaces and a point extends
Concatenation(keys) ==
  IF AfterZeros(keys) = <<>> THEN <<"0">>
  ELSE IF Head(AfterZeros(keys)) = "." THEN <<"0">> \o AfterZeros(keys)
  ELSE AfterZeros(keys)

\* C13: after any keys from 0-9 and "." with at most one "." were typed one
\* at a time onto a fresh current_input ("0"), current_input is their
\* concatenation, a digit typed onto the bare "0" having replaced it.
C13_TypedConcatenation ==
  (/\ typed.seed = <<"0">>
   /\ \A i \in 1..Len(typed.keys) : IsDigit(typed.keys[i]) \/ typed.keys[i] = "."
   /\ CountOf(typed.keys, ".") <= 1)
  => current_input = Concatenation(typed.keys)

\* the keys 0 5 . 0 were typed onto a cleared entry: the 5 replaced the
\* bare 0 and the rest was appended
C13_Witness ==
  /\ typed = [seed |-> <<"0">>, keys |-> <<"0", "5", ".", "0">>]
  /\ current_input = <<"5", ".", "0">>
  /\ steps > Len(typed.keys)

\* C14: calculate() with no operation pending or with previous_input empty
\* changes no field and returns current_input, or "0" when that is empty.
C14_IdleEvaluateIsNoOp ==
  [][(lastCall' = "calculate" /\ (operation = None \/ previous_input = <<>>))
     => (/\ UNCHANGED <<current_input, previous_input, operation,
                        last_operation, history, memory>>
         /\ ret' = Returned("str", IF current_input # <<>> THEN current_input
                                   ELSE <<"0">>))]_vars

\* calculate() echoed the entry "5." with nothing pending, after an earlier
\* evaluation had left an entry in history
C14_Witness ==
  /\ lastCall = "calculate"
  /\ operation = None
  /\ current_input = <<"5", ".">>
  /\ ret = Returned("str", <<"5", ".">>)
  /\ history # <<>>

\* C15: set_operation(op2) called with op1 pending, previous_input and
\* current_input non-empty, leaves the history calculate() would leave for
\* op1, previous_input equal to the current_input calculate() would leave,
\* current_input empty, operation op2 and last_operation "<previous_input>
\* op2"; for typed operands of + - * that is the entry "a op1 b = r" and
\* previous_input r = a op1 b.
C15_ChainedEvaluation ==
  [][(/\ lastCall' = "set_operation"
      /\ operation # None
      /\ previous_input # <<>>
      /\ current_input # <<>>)
     => (/\ history' = Calculate(Fields).fields.history
         /\ previous_input' = Calculate(Fields).fields.current_input
         /\ current_input' = <<>>
         /\ operation' \in OpInputs
         /\ last_operation' = previous_input' \o <<" ", operation'>>
         /\ memory' = memory
         /\ (/\ operation \in {"+", "-", "*"}
             /\ TypedNumber(previous_input)
             /\ TypedNumber(current_input))
            => (/\ NumberText(previous_input')
                /\ Units(previous_input') =
                     Reference(operation, Units(previous_input),
                               Units(current_input))
                /\ history' =
                     (IF Len(history) < HistoryLimit THEN history
                      ELSE Tail(history)) \o <<EntryFor(previous_input')>>))]_vars

\* the keys 5 + 5 + 5 = gave 15, with the entries of 5 + 5 and of 10 + 5 in
\* that order
C15_Witness ==
  /\ lastCall = "calculate"
  /\ ret = Returned("int", <<"1", "5">>)
  /\ current_input = <<"1", "5">>
  /\ history = << <<"5", " ", "+", " ", "5", " ", "=", " ", "1", "0">>,
                  <<"1", "0", " ", "+", " ", "5", " ", "=", " ", "1", "5">> >>

\* C16: set_operation() called while current_input is empty changes no
\* field: the pending operation, previous_input, last_operation, history,
\* current_input and memory stay as they were.
C16_SelectOnEmptyIgnored ==
  [][(lastCall' = "set_operation" /\ current_input = <<>>)
     => (/\ ret' = NoReturn
         /\ UNCHANGED <<current_input, previous_input, operation,
                        last_operation, history, memory>>)]_vars

\* set_operation() was called with "10 -" pending and nothing typed yet, as
\* after the keys 5 + 5 - and one more operation key: the entry is empty
\* and the pending operation, its label and the history entry are in place
C16_Witness ==
  /\ steps = 5
  /\ lastCall = "set_operation"
  /\ current_input = <<>>
  /\ previous_input = <<"1", "0">>
  /\ operation = "-"
  /\ last_operation = <<"1", "0", " ", "-">>
  /\ history = << <<"5", " ", "+", " ", "5", " ", "=", " ", "1", "0">> >>

\* a op a on a value in units, for the five binary symbols
SelfApplied(op, a) ==
  IF op = "/" THEN (a * Scale) \div a ELSE Reference(op, a, a)

\* C17: calculate() with + - * / or ^ pending and current_input empty
\* takes the left operand a for the right operand too: it returns a op a,
\* and the history entry it appends has an empty right operand ("a op  =
\* result").  a / a is taken for a # 0, a ^ a for whole a >= 0.
C17_MissingRightOperand ==
  [][(/\ Evaluates
      /\ current_input = <<>>
      /\ operation \in {"+", "-", "*", "/", "^"}
      /\ NumberText(previous_input)
      /\ operation = "/" => Units(previous_input) # 0
      /\ operation = "^" => (/\ Units(previous_input) >= 0
                             /\ Units(previous_input) % Scale = 0))
     => (/\ ret'.kind \in {"int", "float"}
         /\ NumberText(ret'.text)
         /\ Units(ret'.text) = SelfApplied(operation, Units(previous_input))
         /\ current_input' = ret'.text
         /\ history' =
              (IF Len(history) < HistoryLimit THEN history ELSE Tail(history))
                \o << previous_input \o <<" ", operation, " ", " ", "=", " ">>
                        \o ret'.text >>)]_vars

\* the keys 5 + = gave 10, and the entry "5 +  = 10"
C17_Witness ==
  /\ lastCall = "calculate"
  /\ ret = Returned("int", <<"1", "0">>)
  /\ current_input = <<"1", "0">>
  /\ history = << <<"5", " ", "+", " ", " ", "=", " ", "1", "0">> >>

\* C18: with sqrt pending and a left operand a >= 0, calculate() returns
\* the square root of a, whether current_input is empty or holds a number:
\* the value returned is r >= 0 with r * r = a; it becomes current_input and
\* operation is unset.
C18_UnaryRoot ==
  [][(/\ Evaluates
      /\ operation = "sqrt"
      /\ NumberText(previous_input)
      /\ Units(previous_input) >= 0
      /\ current_input = <<>> \/ NumberText(current_input))
     => (/\ ret'.kind \in {"int", "float"}
         /\ NumberText(ret'.text)
         /\ Units(ret'.text) >= 0
         /\ Units(ret'.text) * Units(ret'.text) = Units(previous_input) * Scale
         /\ current_input' = ret'.text
         /\ operation' = None)]_vars

\* the root of 25 was taken while 0 stood in current_input: 5 came back
C18_Witness ==
  /\ lastCall = "calculate"
  /\ ret = Returned("int", <<"5">>)
  /\ operation = None
  /\ history # <<>>
  /\ history[Len(history)] =
       <<"2", "5", " ", "sqrt", " ", "0", " ", "=", " ", "5">>

\* C19: in every state last_operation is non-empty exactly when an
\* operation is pending; while one is pending previous_input is non-empty
\* and last_operation is "<previous_input> <operation>"; while none is,
\* last_operation is empty.
C19_LabelFollowsOperation ==
  /\ last_operation # <<>> <=> operation # None
  /\ operation # None =>
       (/\ previous_input # <<>>
        /\ last_operation = previous_input \o <<" ", operation>>)
  /\ operation = None => last_operation = <<>>

\* an evaluation has cleared the label "5 ^" that set_operation() had
\* written, while previous_input still holds the 5
C19_Witness ==
  /\ lastCall = "calculate"
  /\ ret.kind = "int"
  /\ previous_input = <<"5">>
  /\ operation = None
  /\ last_operation = <<>>
  /\ history # <<>>
  /\ SubSeq(history[Len(history)], 1, 3) = <<"5", " ", "^">>

\* both operands of the pending operation are numbers
Operands == NumberText(previous_input) /\ NumberText(RightOperand)

\* "/" is pending and the right operand is zero
DividesByZero == Operands /\ operation = "/" /\ Units(RightOperand) = 0

\* "^" is pending, the left operand is zero and the exponent negative
ZeroToNegative ==
  Operands /\ operation = "^" /\ Units(previous_input) = 0
           /\ Units(RightOperand) < 0

\* C20 as written: calculate() returns "Error: Div/0" exactly when "/" is
\* pending and the right operand is zero, and "Error" for every other
\* evaluation that fails.
C20_Div0OnlyForDivision ==
  [][Evaluates
     => (/\ ret' = Returned("str", ErrorDiv0) <=> DividesByZero
         /\ (ret'.kind = "str" /\ ~DividesByZero)
              => ret' = Returned("str", ErrorText))]_vars

\* C20 as amended: calculate() returns "Error: Div/0" exactly when "/" is
\* pending and the right operand is zero or "^" is pending with a zero
\* left operand and a negative exponent, and "Error" for every other
\* evaluation that fails.
C20_Div0ForEveryZeroDivision ==
  [][Evaluates
     => (/\ ret' = Returned("str", ErrorDiv0)
              <=> (DividesByZero \/ ZeroToNegative)
         /\ (ret'.kind = "str" /\ ~DividesByZero /\ ~ZeroToNegative)
              => ret' = Returned("str", ErrorText))]_vars

\* "Error: Div/0" came back together with a reset: zero was raised to a
\* negative exponent (after a division by zero the text stays in
\* current_input)
C20_Witness ==
  /\ lastCall = "calculate"
  /\ ret = Returned("str", ErrorDiv0)
  /\ IsReset(current_input, previous_input, operation, last_operation, history)

====
